---- MODULE Spec2Model ----
(***************************************************************************)
(* Model of src/flyer_parser.py: the FlyerParser class (parse_flyers_      *)
(* category, parse_category_shop, parse_flyer, write_flyers_to_file) and   *)
(* the date-range parsing done inside parse_flyer.                         *)
(*                                                                         *)
(* Texts are sequences of one-character strings, so that str.strip,        *)
(* str.split, the `in` test and strptime/strftime are computed character   *)
(* by character.                                                           *)
(***************************************************************************)
EXTENDS Integers, Sequences, FiniteSets, TLC

VARIABLES
    pc,             \* position of the caller / the pipeline
    parsed_flyers,  \* self.parsed_flyers
    driver,         \* self.driver: "live" or "quit"
    links,          \* category_dropdown_links still to be visited
    flyers,         \* elements of the current shop still to be parsed
    shop_name,      \* parse_category_shop's shop_name argument
    exc,            \* the exception in flight / escaped ("none" if none)
    handled,        \* which except clause of parse_flyers_category ran
    file,           \* the output file
    clock,          \* datetime.now(), in ticks
    runs,           \* number of parse_flyers_category calls so far
    acquired,       \* number of webdriver.Chrome() calls so far
    released,       \* number of driver.quit() calls so far
    runReleased,    \* number of driver.quit() calls of the current run
    visited,        \* the shop pages the current run has navigated to
    fetched,        \* what the fetch and the discovery of the current run met
    discovered,     \* the links the current run discovered
    usedAfterQuit,  \* number of driver.get calls on a driver that was quit
    rangePieces,    \* the date parse on its own: the pieces of the range text
    parseResult,    \* the date parse on its own: its result
    flyerInput,     \* parse_flyer on its own: the element it is called on
    built           \* parse_flyer on its own: what each call so far gave

vars == <<pc, parsed_flyers, driver, links, flyers, shop_name, exc, handled,
          file, clock, runs, acquired, released, runReleased, visited,
          fetched, discovered, usedAfterQuit, rangePieces, parseResult,
          flyerInput, built>>

pipeVars == <<pc, parsed_flyers, driver, links, flyers, shop_name, exc, handled,
              file, clock, runs, acquired, released, runReleased, visited,
              fetched, discovered, usedAfterQuit>>

----------------------------------------------------------------------------
(* Bounds of the model. *)

\* anchors in the dropdown of the category
MaxShops == 2

\* flyer elements the pages of one run show, all shops together
MaxFlyers == 3

\* calls of parse_flyers_category on the one FlyerParser object
MaxRuns == 2

\* pieces a range text is put together from
MaxPieces == 5

\* calls of parse_flyer on one element handle
MaxCalls == 2

----------------------------------------------------------------------------
(* Python values. *)

None == <<>>

Some(v) == <<v>>

Whitespace == {" ", "\n", "\t"}

\* a str: its characters in order
Text == Seq(STRING)

\* str.lstrip / str.rstrip / str.strip
\* (the helpers on texts are functions: an argument is evaluated once)
LStrip[s \in Text] ==
    IF s # <<>> /\ Head(s) \in Whitespace THEN LStrip[Tail(s)] ELSE s

RStrip[s \in Text] ==
    IF s # <<>> /\ s[Len(s)] \in Whitespace
    THEN RStrip[SubSeq(s, 1, Len(s) - 1)]
    ELSE s

Strip(s) == RStrip[LStrip[s]]

\* the positions at which sub occurs in s
Occurrences(s, sub) ==
    {i \in 1..(Len(s) - Len(sub) + 1) : SubSeq(s, i, i + Len(sub) - 1) = sub}

\* `sub in s`
Contains(s, sub) == Occurrences(s, sub) # {}

Min(S) == CHOOSE x \in S : \A y \in S : x <= y

\* str.split(sep) with an explicit separator: empty strings are kept
Split[s \in Text, sep \in Text] ==
    IF ~Contains(s, sep)
    THEN <<s>>
    ELSE LET i == Min(Occurrences(s, sep))
         IN  <<SubSeq(s, 1, i - 1)>> \o Split[SubSeq(s, i + Len(sep), Len(s)), sep]

----------------------------------------------------------------------------
(* datetime.strptime(token, "%d.%m.%Y") and .strftime("%Y-%m-%d"). *)

Digits == {"0", "1", "2", "3", "4", "5", "6", "7", "8", "9"}

DigitChars == <<"0", "1", "2", "3", "4", "5", "6", "7", "8", "9">>

DigitVal(c) == (CHOOSE i \in 1..10 : DigitChars[i] = c) - 1

NumVal[s \in Text] ==
    IF s = <<>> THEN 0
    ELSE 10 * NumVal[SubSeq(s, 1, Len(s) - 1)] + DigitVal(s[Len(s)])

\* %d: 3[0-1] | [1-2]\d | 0[1-9] | [1-9] | " "[1-9]
MatchesDay(s) ==
    \/ Len(s) = 2 /\ s[1] = "3" /\ s[2] \in {"0", "1"}
    \/ Len(s) = 2 /\ s[1] \in {"1", "2"} /\ s[2] \in Digits
    \/ Len(s) = 2 /\ s[1] \in {"0", " "} /\ s[2] \in Digits \ {"0"}
    \/ Len(s) = 1 /\ s[1] \in Digits \ {"0"}

\* %m taken as any one or two digits
MatchesMonth_AnyDigits(s) ==
    /\ Len(s) \in {1, 2}
    /\ \A i \in 1..Len(s) : s[i] \in Digits

\* %m: 1[0-2] | 0[1-9] | [1-9]
MatchesMonth(s) ==
    \/ Len(s) = 2 /\ s[1] = "1" /\ s[2] \in {"0", "1", "2"}
    \/ Len(s) = 2 /\ s[1] = "0" /\ s[2] \in Digits \ {"0"}
    \/ Len(s) = 1 /\ s[1] \in Digits \ {"0"}

\* %Y: \d\d\d\d
MatchesYear(s) == Len(s) = 4 /\ \A i \in 1..4 : s[i] \in Digits

IsLeap(y) == (y % 4 = 0 /\ y % 100 # 0) \/ y % 400 = 0

DaysInMonth(y, m) ==
    IF m = 2 THEN (IF IsLeap(y) THEN 29 ELSE 28)
    ELSE IF m \in {4, 6, 9, 11} THEN 30 ELSE 31

\* the day digits of a %d match (a leading space is not a digit)
DayDigits(s) == IF s[1] = " " THEN Tail(s) ELSE s

\* what strptime gives: a date, or no date (ValueError)
Dates == [ok : BOOLEAN, day : Nat, month : Nat, year : Nat]

NoDate == [ok |-> FALSE, day |-> 0, month |-> 0, year |-> 0]

\* the date of the fields the regular expression of "%d.%m.%Y" matched
DateOfFields[parts \in Seq(Text)] ==
    IF /\ Len(parts) = 3
       /\ MatchesDay(parts[1])
       /\ MatchesMonth(parts[2])
       /\ MatchesYear(parts[3])
    THEN LET d == NumVal[DayDigits(parts[1])]
             m == NumVal[parts[2]]
             y == NumVal[parts[3]]
         IN  IF y >= 1 /\ d <= DaysInMonth(y, m)
             THEN [ok |-> TRUE, day |-> d, month |-> m, year |-> y]
             ELSE NoDate
    ELSE NoDate

\* strptime: the regular expression has to match the whole token and the
\* fields have to form a calendar date, else ValueError
Strptime[tok \in Text] == DateOfFields[Split[tok, <<".">>]]

\* %m and %d written without the leading zero
Pad2_NoPad(n) ==
    IF n < 10 THEN <<DigitChars[n + 1]>>
    ELSE <<DigitChars[(n \div 10) + 1], DigitChars[(n % 10) + 1]>>

Pad2(n) == <<DigitChars[(n \div 10) + 1], DigitChars[(n % 10) + 1]>>

Pad4(n) == Pad2(n \div 100) \o Pad2(n % 100)

\* strftime("%Y-%m-%d"), for the years from 1000 on (%Y gives four digits)
Strftime[d \in Dates] ==
    Pad4(d.year) \o <<"-">> \o Pad2(d.month) \o <<"-">> \o Pad2(d.day)

----------------------------------------------------------------------------
(* The date-range part of parse_flyer (lines 140-152). *)

Von == <<"v", "o", "n">>

RangeOk(from, to) == [ok |-> TRUE, valid_from |-> from, valid_to |-> to, exc |-> "none"]

RangeFail(e) == [ok |-> FALSE, valid_from |-> <<>>, valid_to |-> <<>>, exc |-> e]

\* the index, counted from 1, of dates[2]
SingleBoundIndex == 3

\* lines 143-146 with the date at dates[k - 1]
SingleBoundOf[dates \in Seq(Text), k \in Nat] ==
    IF Len(dates) < k THEN RangeFail("IndexError")
    ELSE LET d == Strptime[dates[k]]
         IN  IF d.ok THEN RangeOk(Strftime[d], <<>>)
             ELSE RangeFail("ValueError")

\* the date taken from dates[1]
ParseSingleBound_OffByOne(range) ==
    SingleBoundOf[Split[range, <<" ">>], SingleBoundIndex - 1]

\* the token of dates[2] kept as it stands, strftime left out
ParseSingleBound_Unformatted(range) ==
    LET dates == Split[range, <<" ">>]
    IN  IF Len(dates) < SingleBoundIndex THEN RangeFail("IndexError")
        ELSE IF Strptime[dates[SingleBoundIndex]].ok
        THEN RangeOk(dates[SingleBoundIndex], <<>>)
        ELSE RangeFail("ValueError")

\* lines 142-146
ParseSingleBound(range) ==
    SingleBoundOf[Split[range, <<" ">>], SingleBoundIndex]

\* lines 149-152
DoubleBoundOf[dates \in Seq(Text)] ==
    LET d0 == Strptime[dates[1]]
    IN  IF ~d0.ok THEN RangeFail("ValueError")
        ELSE IF Len(dates) < 2 THEN RangeFail("IndexError")
        ELSE LET d1 == Strptime[dates[2]]
             IN  IF d1.ok THEN RangeOk(Strftime[d0], Strftime[d1])
                 ELSE RangeFail("ValueError")

\* lines 148-152
ParseDoubleBound(range) == DoubleBoundOf[Split[range, <<" ", "-", " ">>]]

\* lines 140-152
ParseRange[range \in Text] ==
    IF Contains(range, Von) THEN ParseSingleBound(range)
    ELSE ParseDoubleBound(range)

(* The site: what the fetch and the render capability can answer. *)

DateA == <<"0", "1", ".", "0", "6", ".", "2", "0", "2", "4">>

DateB == <<"5", ".", "7", ".", "2", "0", "2", "4">>

DateBad == <<"1", "5", ".", "1", "3", ".", "2", "0", "2", "4">>

\* a token with a day that is no number
DateNoDay == <<"x", "x", ".", "0", "6", ".", "2", "0", "2", "4">>

Word == <<"M", "o">>

\* the delimiter of the double-bound form
Delimiter == <<" ", "-", " ">>

Img(src, data_src) == Some([src |-> src, data_src |-> data_src])

\* the flyer elements a shop page can show
Elements ==
    {"e_double", "e_single", "e_no_src", "e_no_h2", "e_no_img", "e_no_span",
     "e_bad_date"}

ElementDOM(e) ==
    CASE e = "e_double" ->
            [h2 |-> Some(<<"A">>),
             img |-> Img(Some("a.jpg"), None),
             span |-> Some(DateA \o <<" ", "-", " ">> \o DateB)]
      [] e = "e_single" ->
            [h2 |-> Some(<<" ", "B", "\n">>),
             img |-> Img(Some(""), Some("b.jpg")),
             span |-> Some(<<" ">> \o Von \o <<" ">> \o Word \o <<" ">> \o DateB)]
      [] e = "e_no_src" ->
            [h2 |-> Some(<<"C">>),
             img |-> Img(None, None),
             span |-> Some(DateA \o <<" ", "-", " ">> \o DateA)]
      [] e = "e_no_h2" ->
            [h2 |-> None,
             img |-> Img(Some("d.jpg"), None),
             span |-> Some(DateA \o <<" ", "-", " ">> \o DateB)]
      [] e = "e_no_img" ->
            [h2 |-> Some(<<"E">>),
             img |-> None,
             span |-> Some(DateA \o <<" ", "-", " ">> \o DateB)]
      [] e = "e_no_span" ->
            [h2 |-> Some(<<"F">>),
             img |-> Img(Some("f.jpg"), None),
             span |-> None]
      [] e = "e_bad_date" ->
            [h2 |-> Some(<<"G">>),
             img |-> Img(Some("g.jpg"), None),
             span |-> Some(DateA \o <<" ", "-", " ">> \o DateBad)]

----------------------------------------------------------------------------
(* parse_flyer (lines 124-165): one rendered flyer element to one record. *)

\* the span texts of the site, parsed once each
SiteValidity ==
    [t \in {ElementDOM(e).span[1] : e \in {x \in Elements : ElementDOM(x).span # None}}
        |-> ParseRange[Strip(t)]]

\* the strip of line 138 left out
FlyerValidity_NoStrip(text) == ParseRange[text]

\* lines 135-152: the textContent of the span, stripped, then parsed
FlyerValidity(text) ==
    IF text \in DOMAIN SiteValidity THEN SiteValidity[text] ELSE ParseRange[Strip(text)]

Truthy(v) == v # None /\ v[1] # ""

\* `a if a is not None else b`
Or_NoneOnly(a, b) == IF a # None THEN a ELSE b

\* Python's `a or b`
Or(a, b) == IF Truthy(a) THEN a ELSE b

BuildOk(rec) == [ok |-> TRUE, record |-> rec, exc |-> "none"]

BuildFail(e) == [ok |-> FALSE, record |-> <<>>, exc |-> e]

\* a flyer with no end date given the time of parsing as its end
ParseFlyer_OpenEndIsNow(flyer, name, now) ==
    IF flyer.h2 = None THEN BuildFail("NoSuchElementException")
    ELSE IF flyer.img = None THEN BuildFail("NoSuchElementException")
    ELSE IF flyer.span = None THEN BuildFail("NoSuchElementException")
    ELSE LET title == Strip(flyer.h2[1])
             src == Or(flyer.img[1].src, flyer.img[1].data_src)
             range == FlyerValidity(flyer.span[1])
         IN  IF ~range.ok THEN BuildFail(range.exc)
             ELSE BuildOk([title |-> title,
                           thumbnail |-> src,
                           shop_name |-> name,
                           valid_from |-> range.valid_from,
                           valid_to |-> IF range.valid_to = <<>>
                                        THEN <<now>> ELSE range.valid_to,
                           parsed_time |-> now])

\* lines 124-163: the record parse_flyer builds, or the exception it meets
ParseFlyer(flyer, name, now) ==
    IF flyer.h2 = None THEN BuildFail("NoSuchElementException")
    ELSE IF flyer.img = None THEN BuildFail("NoSuchElementException")
    ELSE IF flyer.span = None THEN BuildFail("NoSuchElementException")
    ELSE LET title == Strip(flyer.h2[1])
             src == Or(flyer.img[1].src, flyer.img[1].data_src)
             range == FlyerValidity(flyer.span[1])
         IN  IF ~range.ok THEN BuildFail(range.exc)
             ELSE BuildOk([title |-> title,
                           thumbnail |-> src,
                           shop_name |-> name,
                           valid_from |-> range.valid_from,
                           valid_to |-> range.valid_to,
                           parsed_time |-> now])

\* only the missing sub-element caught
FlyerCatches_OnlyNoSuchElement(e) == e = "NoSuchElementException"

\* `except Exception` of parse_flyer (line 164)
FlyerCatches(e) == TRUE

----------------------------------------------------------------------------
(* The shops of the category and the pages the run has seen. *)

\* the i-th anchor of the category's dropdown: link.get("href"), link.get_text()
ShopLink(i) ==
    [href |-> i,
     text |-> IF i % 2 = 1 THEN <<"S", DigitChars[i + 1]>>
              ELSE <<" ", "S", DigitChars[i + 1], "\n">>]

\* number of elements the pages visited so far have shown
RECURSIVE ElementCount(_)
ElementCount(vis) ==
    IF vis = <<>> THEN 0 ELSE Len(Head(vis).elements) + ElementCount(Tail(vis))

Page(link, outcome, elements) ==
    [link |-> link, outcome |-> outcome, elements |-> elements]

----------------------------------------------------------------------------
(* The FlyerParser object and its caller (lines 56-59, 184-186). *)

\* the output file: not there, holding a list, or cut short by a failed write
Absent == [state |-> "absent", content |-> <<>>]

Written(list) == [state |-> "written", content |-> list]

Partial == [state |-> "partial", content |-> <<>>]

checkVars == <<rangePieces, parseResult, flyerInput, built>>

\* no date parse made yet
Pending == RangeFail("pending")

\* no element handed to parse_flyer on its own
NoElement == [h2 |-> None, img |-> None, span |-> None]

\* __init__: the state after FlyerParser(BASE_URL)
Init ==
    /\ pc = "idle"
    /\ parsed_flyers = <<>>
    /\ driver = "live"
    /\ links = <<>>
    /\ flyers = <<>>
    /\ shop_name = <<>>
    /\ exc = "none"
    /\ handled = "none"
    /\ file = Absent
    /\ clock = 0
    /\ runs = 0
    /\ acquired = 1
    /\ released = 0
    /\ runReleased = 0
    /\ visited = <<>>
    /\ fetched = "none"
    /\ discovered = <<>>
    /\ usedAfterQuit = 0
    /\ rangePieces = <<>>
    /\ parseResult = Pending
    /\ flyerInput = NoElement
    /\ built = <<>>

\* the `except Exception` clause left out
PipelineCatch_OnlyRequest(e) ==
    IF e = "RequestException" THEN "RequestException" ELSE "uncaught"

\* the except clauses of parse_flyers_category (lines 84-90): the clause
\* that catches e, "uncaught" if none does
PipelineCatch(e) ==
    IF e = "RequestException" THEN "RequestException" ELSE "Exception"

\* an exception raised inside the try block of parse_flyers_category
Raise(e) ==
    /\ handled' = PipelineCatch(e)
    /\ exc' = IF PipelineCatch(e) = "uncaught" THEN e ELSE "none"
    /\ pc' = "finally"
    /\ links' = <<>>
    /\ flyers' = <<>>

\* the reset of line 71 left out
Enter_NoReset ==
    /\ pc \in {"idle", "done"}
    /\ runs < MaxRuns
    /\ runs' = runs + 1
    /\ parsed_flyers' = parsed_flyers
    /\ clock' = clock + 1
    /\ runReleased' = 0
    /\ visited' = <<>>
    /\ UNCHANGED <<driver, shop_name, file, acquired, released, usedAfterQuit,
                   checkVars>>

\* the call of parse_flyers_category and the reset of line 71
Enter ==
    /\ pc \in {"idle", "done"}
    /\ runs < MaxRuns
    /\ runs' = runs + 1
    /\ parsed_flyers' = <<>>
    /\ clock' = clock + 1
    /\ runReleased' = 0
    /\ visited' = <<>>
    /\ UNCHANGED <<driver, shop_name, file, acquired, released, usedAfterQuit,
                   checkVars>>

\* lines 69-73: requests.get raises a RequestException
FetchFails ==
    /\ Enter
    /\ fetched' = "transport_error"
    /\ discovered' = <<>>
    /\ Raise("RequestException")

\* lines 69-79: the page has no anchor of the category (select_one gives
\* None) or the anchor has no following sibling (find_next_sibling gives None)
DiscoveryFails ==
    /\ Enter
    /\ \E f \in {"no_anchor", "no_sibling"} : fetched' = f
    /\ discovered' = <<>>
    /\ Raise("AttributeError")

\* where the for loop of line 81 goes with these links left
LoopPc(rest) == IF rest = <<>> THEN "finally" ELSE "links"

\* lines 69-81: the dropdown has n list-item anchors
Discover ==
    /\ Enter
    /\ fetched' = "ok"
    /\ \E n \in 0..MaxShops :
          /\ discovered' = [i \in 1..n |-> ShopLink(i)]
          /\ links' = [i \in 1..n |-> ShopLink(i)]
          /\ pc' = LoopPc(links')
    /\ flyers' = <<>>
    /\ handled' = "none"
    /\ UNCHANGED exc

----------------------------------------------------------------------------
(* parse_category_shop (lines 98-122), called from the loop of line 81. *)

\* the return of line 112 left out
ShopExcept_AllFallThrough(e) == "fallthrough"

\* the except clauses of parse_category_shop (lines 110-115): on a
\* TimeoutException the method returns; on any other exception it logs and
\* goes on to line 117
ShopExcept(e) == IF e = "TimeoutException" THEN "return" ELSE "fallthrough"

\* the state of the loop of line 81 after parse_category_shop returned
ShopReturns ==
    /\ links' = Tail(links)
    /\ pc' = LoopPc(Tail(links))
    /\ flyers' = <<>>
    /\ UNCHANGED <<exc, handled>>

\* driver.get or the wait raised e: the except clause, and line 117 with
\* `flyers` never assigned (an UnboundLocalError, raised outside the try of
\* parse_category_shop, so it reaches parse_flyers_category)
ShopRaises(e) ==
    IF ShopExcept(e) = "return" THEN ShopReturns ELSE Raise("UnboundLocalError")

\* lines 100-112: the wait expires with no flyer element on the page
ShopTimeout ==
    /\ pc = "links"
    /\ driver = "live"
    /\ visited' = Append(visited, Page(Head(links), "timeout", <<>>))
    /\ shop_name' = Head(links).text
    /\ ShopRaises("TimeoutException")
    /\ UNCHANGED <<parsed_flyers, driver, file, clock, runs, acquired, released,
                   runReleased, fetched, discovered, usedAfterQuit, checkVars>>

\* lines 100-117: driver.get or the wait raises another exception; on a
\* driver that was quit driver.get always does
ShopRenderError ==
    /\ pc = "links"
    /\ visited' = Append(visited, Page(Head(links), "error", <<>>))
    /\ shop_name' = Head(links).text
    /\ usedAfterQuit' = IF driver = "quit" THEN usedAfterQuit + 1 ELSE usedAfterQuit
    /\ ShopRaises("WebDriverException")
    /\ UNCHANGED <<parsed_flyers, driver, file, clock, runs, acquired, released,
                   runReleased, fetched, discovered, checkVars>>

\* lines 100-108: the wait returns the flyer elements of the page, at least one
ShopFound ==
    /\ pc = "links"
    /\ driver = "live"
    /\ \E n \in 1..(MaxFlyers - ElementCount(visited)) :
          flyers' \in [1..n -> Elements]
    /\ visited' = Append(visited, Page(Head(links), "found", flyers'))
    /\ shop_name' = Head(links).text
    /\ links' = Tail(links)
    /\ pc' = "flyers"
    /\ UNCHANGED <<parsed_flyers, driver, exc, handled, file, clock, runs, acquired,
                   released, runReleased, fetched, discovered, usedAfterQuit,
                   checkVars>>

\* the list assigned anew in place of append
Collect_Overwrite(list, rec) == <<rec>>

\* insert(0, ...) in place of append
Collect_Prepend(list, rec) == <<rec>> \o list

\* list.append of line 154
Collect(list, rec) == Append(list, rec)

\* lines 117-122: one turn of the loop over the elements, parse_flyer on the
\* next element; after the last element parse_category_shop returns
ParseNextFlyer ==
    /\ pc = "flyers"
    /\ LET r == ParseFlyer(ElementDOM(Head(flyers)), shop_name, clock)
       IN  IF r.ok
           THEN /\ parsed_flyers' = Collect(parsed_flyers, r.record)
                /\ flyers' = Tail(flyers)
                /\ pc' = IF Tail(flyers) = <<>> THEN LoopPc(links) ELSE "flyers"
                /\ UNCHANGED <<links, exc, handled>>
           ELSE IF FlyerCatches(r.exc)
           THEN /\ parsed_flyers' = parsed_flyers
                /\ flyers' = Tail(flyers)
                /\ pc' = IF Tail(flyers) = <<>> THEN LoopPc(links) ELSE "flyers"
                /\ UNCHANGED <<links, exc, handled>>
           ELSE /\ parsed_flyers' = parsed_flyers
                /\ Raise(r.exc)
    /\ UNCHANGED <<driver, shop_name, file, clock, runs, acquired, released,
                   runReleased, visited, fetched, discovered, usedAfterQuit,
                   checkVars>>

----------------------------------------------------------------------------
(* The finally clause (lines 92-96) and write_flyers_to_file (lines 61-67). *)

\* the quit placed at the end of the try block instead of in a finally
Finally_OnlyOnCleanExit ==
    /\ pc = "finally"
    /\ driver' = IF handled = "none" THEN "quit" ELSE driver
    /\ released' = IF handled = "none" THEN released + 1 ELSE released
    /\ runReleased' = IF handled = "none" THEN runReleased + 1 ELSE runReleased
    /\ pc' = IF exc = "none" THEN "parsed" ELSE "crashed"
    /\ UNCHANGED <<parsed_flyers, links, flyers, shop_name, exc, handled, file,
                   clock, runs, acquired, visited, fetched, discovered,
                   usedAfterQuit, checkVars>>

\* lines 92-96: driver.quit(), then the method returns, or the exception
\* that no clause caught goes on to the caller
Finally ==
    /\ pc = "finally"
    /\ driver' = "quit"
    /\ released' = released + 1
    /\ runReleased' = runReleased + 1
    /\ pc' = IF exc = "none" THEN "parsed" ELSE "crashed"
    /\ UNCHANGED <<parsed_flyers, links, flyers, shop_name, exc, handled, file,
                   clock, runs, acquired, visited, fetched, discovered,
                   usedAfterQuit, checkVars>>

\* the try of write_flyers_to_file left out
WriteCatches_Nothing(e) == FALSE

\* `except IOError` of write_flyers_to_file (line 66)
WriteCatches(e) == e = "IOError"

\* lines 61-65: the file is written
WriteOk ==
    /\ pc = "parsed"
    /\ file' = Written(parsed_flyers)
    /\ pc' = "done"
    /\ UNCHANGED <<parsed_flyers, driver, links, flyers, shop_name, exc, handled,
                   clock, runs, acquired, released, runReleased, visited, fetched,
                   discovered, usedAfterQuit, checkVars>>

\* lines 61-67: open or json.dump raises an IOError; the file is as it was
\* (open failed) or cut short
WriteFails ==
    /\ pc = "parsed"
    /\ file' \in {file, Partial}
    /\ IF WriteCatches("IOError")
       THEN pc' = "done" /\ exc' = exc
       ELSE pc' = "crashed" /\ exc' = "IOError"
    /\ UNCHANGED <<parsed_flyers, driver, links, flyers, shop_name, handled,
                   clock, runs, acquired, released, runReleased, visited, fetched,
                   discovered, usedAfterQuit, checkVars>>

\* the steps a call runs by itself once it was made
RunStep ==
    \/ ShopTimeout
    \/ ShopRenderError
    \/ ShopFound
    \/ ParseNextFlyer
    \/ Finally
    \/ WriteOk
    \/ WriteFails

Next ==
    \/ FetchFails
    \/ DiscoveryFails
    \/ Discover
    \/ ShopTimeout
    \/ ShopRenderError
    \/ ShopFound
    \/ ParseNextFlyer
    \/ Finally
    \/ WriteOk
    \/ WriteFails

Spec == Init /\ [][Next]_vars

FairSpec == Spec /\ WF_vars(RunStep)

----------------------------------------------------------------------------
(* The date parse of lines 135-152 on its own: range texts put together    *)
(* from at most MaxPieces pieces.                                          *)

Pieces == <<Von, <<" ">>, Word, Delimiter, DateA, DateB, DateBad, DateNoDay>>

RangeTexts == UNION {[1..n -> 1..Len(Pieces)] : n \in 0..MaxPieces}

RECURSIVE Join(_)
Join(ps) == IF ps = <<>> THEN <<>> ELSE Pieces[Head(ps)] \o Join(Tail(ps))

\* an element with a title, an image and this text in its span
SpanElement(text) ==
    [h2 |-> Some(<<"T">>), img |-> Img(Some("t.jpg"), None), span |-> Some(text)]

InitParse ==
    /\ pc = "idle"
    /\ parsed_flyers = <<>>
    /\ driver = "live"
    /\ links = <<>>
    /\ flyers = <<>>
    /\ shop_name = <<>>
    /\ exc = "none"
    /\ handled = "none"
    /\ file = Absent
    /\ clock = 0
    /\ runs = 0
    /\ acquired = 1
    /\ released = 0
    /\ runReleased = 0
    /\ visited = <<>>
    /\ fetched = "none"
    /\ discovered = <<>>
    /\ usedAfterQuit = 0
    /\ rangePieces \in RangeTexts
    /\ parseResult = Pending
    /\ flyerInput = SpanElement(Join(rangePieces))
    /\ built = <<>>

\* lines 135-152 applied to the text, and parse_flyer (lines 124-165)
\* called on an element with the text in its span
ParseRangeText ==
    /\ parseResult = Pending
    /\ parseResult' = FlyerValidity(flyerInput.span[1])
    /\ built' = <<ParseFlyer(flyerInput, shop_name, clock)>>
    /\ UNCHANGED <<pipeVars, rangePieces, flyerInput>>

NextParse == ParseRangeText

SpecParse == InitParse /\ [][NextParse]_vars

----------------------------------------------------------------------------
(* parse_flyer (lines 124-165) on its own: called up to MaxCalls times on  *)
(* one element handle with one shop name.                                  *)

\* what get_attribute can give for src and for data-src
SrcValues == {None, Some(""), Some("s.jpg")}

DataSrcValues == {None, Some(""), Some("d.jpg")}

\* what the textContent of the span can be
SpanTexts ==
    {DateA \o Delimiter \o DateB,
     <<" ">> \o Von \o <<" ">> \o Word \o <<" ">> \o DateB \o <<"\n">>,
     DateA \o Delimiter \o DateBad,
     <<>>}

\* the elements parse_flyer can be handed
FlyerInputs ==
    [h2 : {None, Some(<<" ", "T", "\n">>)},
     img : {None} \cup {Img(s, d) : s \in SrcValues, d \in DataSrcValues},
     span : {None} \cup {Some(t) : t \in SpanTexts}]

InitBuild ==
    /\ pc = "idle"
    /\ parsed_flyers = <<>>
    /\ driver = "live"
    /\ links = <<>>
    /\ flyers = <<>>
    /\ shop_name \in {ShopLink(i).text : i \in 1..MaxShops}
    /\ exc = "none"
    /\ handled = "none"
    /\ file = Absent
    /\ clock = 0
    /\ runs = 0
    /\ acquired = 1
    /\ released = 0
    /\ runReleased = 0
    /\ visited = <<>>
    /\ fetched = "none"
    /\ discovered = <<>>
    /\ usedAfterQuit = 0
    /\ rangePieces = <<>>
    /\ parseResult = Pending
    /\ flyerInput \in FlyerInputs
    /\ built = <<>>

\* one call of parse_flyer on the element, datetime.now() giving `now`
BuildFlyer ==
    /\ Len(built) < MaxCalls
    /\ \E now \in 1..MaxCalls :
          built' = Append(built, ParseFlyer(flyerInput, shop_name, now))
    /\ UNCHANGED <<pipeVars, rangePieces, parseResult, flyerInput>>

NextBuild == BuildFlyer

SpecBuild == InitBuild /\ [][NextBuild]_vars

----------------------------------------------------------------------------
(* Properties. *)

Running == pc \in {"links", "flyers", "finally"}

Returned == pc \in {"parsed", "done"}

Last(q) == q[Len(q)]

\* C1: in every run of parse_flyers_category the driver is quit exactly
\* once, on every way out: none before the finally clause, one after it.
C1_ReleasedExactlyOncePerRun ==
    /\ Running => runReleased = 0
    /\ pc \in {"parsed", "done", "crashed"} => runReleased = 1 /\ driver = "quit"

\* a run left through an exception raised while a shop was collected
C1_Witness ==
    /\ pc = "parsed"
    /\ handled = "Exception"
    /\ visited # <<>>
    /\ runReleased = 1

\* C2: every run has its own acquisition and its own release: after any
\* number of runs, acquisitions = releases = runs.
C2_AcquiredAndReleasedPerRun ==
    Returned => acquired = runs /\ released = runs

----------------------------------------------------------------------------

\* the records parse_flyer builds from these elements, in their order
RECURSIVE BuiltRecords(_, _, _)
BuiltRecords(es, name, now) ==
    IF es = <<>> THEN <<>>
    ELSE LET r == ParseFlyer(ElementDOM(Head(es)), name, now)
         IN  (IF r.ok THEN <<r.record>> ELSE <<>>)
                \o BuiltRecords(Tail(es), name, now)

\* the output of a run over pages none of which times out
RECURSIVE RunOutput(_, _)
RunOutput(pages, now) ==
    IF pages = <<>> THEN <<>>
    ELSE CASE Head(pages).outcome = "found" ->
                 BuiltRecords(Head(pages).elements, Head(pages).link.text, now)
                    \o RunOutput(Tail(pages), now)
           [] Head(pages).outcome = "error" -> <<>>

NotTimedOut(page) == page.outcome # "timeout"

\* C3: a shop whose wait times out contributes no record and no error: the
\* output is the output of the run without the timed-out shops, and the run
\* never ends at a timed-out shop that is not the last discovered one.
C3_TimeoutContributesNothing ==
    Returned =>
        /\ parsed_flyers = RunOutput(SelectSeq(visited, NotTimedOut), clock)
        /\ \A i \in 1..Len(visited) :
              visited[i].outcome = "timeout" =>
                 \/ i < Len(visited)
                 \/ i = Len(discovered) /\ handled = "none"

\* a shop timed out, a later shop was collected and gave records
C3_Witness ==
    /\ pc = "parsed"
    /\ Len(visited) = 2
    /\ visited[1].outcome = "timeout"
    /\ visited[2].outcome = "found"
    /\ parsed_flyers # <<>>

\* C4: whatever the navigate/wait step of a shop does, parse_category_shop
\* returns normally to the loop, so that every discovered shop is collected.
C4_CollectNeverFailsPipeline ==
    (Returned /\ fetched = "ok") => Len(visited) = Len(discovered)

----------------------------------------------------------------------------

\* the elements parse_flyer makes a record of, and the title of the record
GoodElements == {"e_double", "e_single", "e_no_src"}

ExpectedTitle(e) ==
    CASE e = "e_double" -> <<"A">>
      [] e = "e_single" -> <<"B">>
      [] e = "e_no_src" -> <<"C">>

RECURSIVE ExpectedTitles(_)
ExpectedTitles(es) ==
    IF es = <<>> THEN <<>>
    ELSE (IF Head(es) \in GoodElements THEN <<ExpectedTitle(Head(es))>> ELSE <<>>)
            \o ExpectedTitles(Tail(es))

Titles(recs) == [i \in 1..Len(recs) |-> recs[i].title]

RecordsOf(name) == SelectSeq(parsed_flyers, LAMBDA r : r.shop_name = name)

\* the page is done with: it is not the page whose elements are being parsed
PageDone(k) == k < Len(visited) \/ pc # "flyers"

\* C5: a flyer that fails to build drops only itself: of every shop page
\* done with, every element that can be built has its record, in order, and
\* the run goes on to the next shop.
C5_FailedFlyerDropsOnlyItself ==
    /\ \A k \in 1..Len(visited) :
          (visited[k].outcome = "found" /\ PageDone(k)) =>
             Titles(RecordsOf(visited[k].link.text))
                = ExpectedTitles(visited[k].elements)
    /\ (Returned /\ visited # <<>> /\ Last(visited).outcome = "found") =>
          Len(visited) = Len(discovered) /\ handled = "none"

\* a page of three elements, the middle one failing on its date
C5_Witness ==
    /\ pc = "parsed"
    /\ Len(visited) = 1
    /\ visited[1].elements = <<"e_double", "e_bad_date", "e_single">>
    /\ Len(parsed_flyers) = 2

\* C6: a failed fetch, a missing anchor or a missing sibling ends the run
\* at once: no shop page navigated, the collection empty, the driver quit.
C6_DiscoveryFailureIsTerminal ==
    fetched \in {"transport_error", "no_anchor", "no_sibling"} =>
        /\ pc \in {"finally", "parsed", "done"}
        /\ handled # "none"
        /\ visited = <<>>
        /\ parsed_flyers = <<>>
        /\ Returned => runReleased = 1 /\ driver = "quit"

\* the anchor had no sibling, in a run after one that had written records
C6_Witness ==
    /\ pc = "parsed"
    /\ fetched = "no_sibling"
    /\ file.content # <<>>
    /\ parsed_flyers = <<>>

\* C7: whatever the fetch, the discovery, the shops, the flyers and the
\* write do, no exception reaches the caller and the run (the parse, then
\* the write) comes to its end.
C7_RunAlwaysCompletes ==
    /\ [](pc # "crashed" /\ exc = "none")
    /\ [](pc \in {"links", "flyers", "finally", "parsed"} => <>(pc = "done"))

\* a run in which a shop raised and the write failed
C7_Witness ==
    /\ pc = "done"
    /\ handled = "Exception"
    /\ visited # <<>>
    /\ file.state = "partial"

----------------------------------------------------------------------------

\* the elements of page k that parse_flyer was called on
Parsed(k) ==
    IF k = Len(visited) /\ pc = "flyers"
    THEN SubSeq(visited[k].elements, 1, Len(visited[k].elements) - Len(flyers))
    ELSE visited[k].elements

RECURSIVE ExpectedFrom(_)
ExpectedFrom(k) ==
    IF k > Len(visited) THEN <<>>
    ELSE LET ts == ExpectedTitles(Parsed(k))
         IN  [i \in 1..Len(ts) |-> <<visited[k].link.text, ts[i]>>]
                \o ExpectedFrom(k + 1)

\* C8: the output is the concatenation, in discovery order, of each shop's
\* built records in the order of their elements.
C8_OutputInDiscoveryAndDomOrder ==
    [i \in 1..Len(parsed_flyers) |->
        <<parsed_flyers[i].shop_name, parsed_flyers[i].title>>] = ExpectedFrom(1)

\* two shops, the first with two different records
C8_Witness ==
    /\ pc = "parsed"
    /\ Len(parsed_flyers) = 3
    /\ parsed_flyers[1].title # parsed_flyers[2].title
    /\ parsed_flyers[1].shop_name = parsed_flyers[2].shop_name
    /\ parsed_flyers[2].shop_name # parsed_flyers[3].shop_name

\* C9: the collection holds only records of the most recent run
\* (parsed_time is the tick of the run that built the record).
C9_CollectionOfCurrentRunOnly ==
    \A i \in 1..Len(parsed_flyers) : parsed_flyers[i].parsed_time = runs

\* a second run begun after a run that had collected records
C9_Witness ==
    /\ runs = 2
    /\ file.content # <<>>
    /\ \A i \in 1..Len(file.content) : file.content[i].parsed_time = 1
    /\ parsed_flyers = <<>>

----------------------------------------------------------------------------
(* The date parse. *)

IsoA == <<"2", "0", "2", "4", "-", "0", "6", "-", "0", "1">>

IsDatePiece(i) == Pieces[rangePieces[i]] \in {DateA, DateB, DateBad, DateNoDay}

IsSpacePiece(i) == Pieces[rangePieces[i]] = <<" ">>

\* the text is a single-bound one whose date token is piece j: "von" stands
\* somewhere before it, it is the only date of the text, it is the valid
\* DD.MM.YYYY token DateA, and spaces or the ends of the text delimit it
SingleBoundAt(j) ==
    /\ Pieces[rangePieces[j]] = DateA
    /\ \A i \in 1..Len(rangePieces) : IsDatePiece(i) => i = j
    /\ \E i \in 1..(j - 1) : Pieces[rangePieces[i]] = Von
    /\ IsSpacePiece(j - 1)
    /\ j < Len(rangePieces) => IsSpacePiece(j + 1)

\* the number of spaces before piece j, the leading ones not counted
SpacesBefore(j) ==
    LET before == Join(SubSeq(rangePieces, 1, j - 1))
    IN  Cardinality({i \in 1..Len(before) :
                        before[i] = " " /\ \E h \in 1..(i - 1) : before[h] # " "})

\* C10 as stated: every single-bound text with "von" followed by one
\* DD.MM.YYYY token parses to (that date in ISO form, empty), wherever the
\* marker and the token stand.
C10_SingleBoundAnywhere ==
    \A j \in 1..Len(rangePieces) :
        (parseResult # Pending /\ SingleBoundAt(j)) =>
            /\ parseResult.ok
            /\ parseResult.valid_from = IsoA
            /\ parseResult.valid_to = <<>>

\* C10 amended: the same when the date token is the third space-separated
\* token of the trimmed text (exactly two spaces stand before it).
C10_SingleBoundThirdToken ==
    \A j \in 1..Len(rangePieces) :
        (parseResult # Pending /\ SingleBoundAt(j) /\ SpacesBefore(j) = 2) =>
            /\ parseResult.ok
            /\ parseResult.valid_from = IsoA
            /\ parseResult.valid_to = <<>>

\* "von Mo 01.06.2024" parsed
C10_Witness ==
    /\ parseResult.ok
    /\ Join(rangePieces) = Von \o <<" ">> \o Word \o <<" ">> \o DateA
    /\ parseResult.valid_from = IsoA
    /\ parseResult.valid_to = <<>>

----------------------------------------------------------------------------

IsoB == <<"2", "0", "2", "4", "-", "0", "7", "-", "0", "5">>

\* the valid DD.MM.YYYY tokens among the pieces, and their ISO form
ValidDates == {DateA, DateB}

IsoOf(d) == IF d = DateA THEN IsoA ELSE IsoB

Parsed1 == parseResult # Pending

\* C11: every valid double-bound text "D1.M1.Y1 - D2.M2.Y2", the delimiter
\* exactly " - ", parses to (Y1-M1-D1, Y2-M2-D2) with day and month padded
\* to two digits.
C11_DoubleBoundParsesToIso ==
    Parsed1 =>
        LET text == Join(rangePieces)
        IN  \A d1 \in ValidDates, d2 \in ValidDates :
                text = d1 \o <<" ", "-", " ">> \o d2 =>
                    parseResult = RangeOk(IsoOf(d1), IsoOf(d2))

\* "01.06.2024 - 5.7.2024" parsed: the second date had to be padded
C11_Witness ==
    /\ Join(rangePieces) = DateA \o <<" ", "-", " ">> \o DateB
    /\ parseResult = RangeOk(IsoA, IsoB)

----------------------------------------------------------------------------

Spaces(n) == [i \in 1..n |-> " "]

\* valid range texts of the two forms, and what they parse to
Cores ==
    {[text |-> DateA \o <<" ", "-", " ">> \o DateB, result |-> RangeOk(IsoA, IsoB)],
     [text |-> DateB \o <<" ", "-", " ">> \o DateA, result |-> RangeOk(IsoB, IsoA)],
     [text |-> Von \o <<" ">> \o Word \o <<" ">> \o DateA, result |-> RangeOk(IsoA, <<>>)],
     [text |-> Von \o <<" ", "-", " ">> \o DateB, result |-> RangeOk(IsoB, <<>>)]}

\* the positions of s that stay when every run of spaces is cut down to one
\* space and the spaces at the two ends are cut off
KeptPositions(s) ==
    {i \in 1..Len(s) :
        \/ s[i] # " "
        \/ /\ i < Len(s)
           /\ s[i + 1] # " "
           /\ \E h \in 1..(i - 1) : s[h] # " "}

\* s without its additional spaces
Squeezed(s) ==
    LET kept == KeptPositions(s)
        idx == SelectSeq([i \in 1..Len(s) |-> i], LAMBDA i : i \in kept)
    IN  [k \in 1..Len(idx) |-> s[idx[k]]]

\* C12 as stated: a text that differs from a valid range text only by
\* additional whitespace before or after its tokens, the delimiter
\* included, parses to what the valid text parses to.
C12_WhitespaceAroundTokens ==
    Parsed1 =>
        LET text == Squeezed(Join(rangePieces))
        IN  \A c \in Cores : text = c.text => parseResult = c.result

\* C12 amended: the same for additional whitespace at the beginning and at
\* the end of the text.
C12_WhitespaceAtEnds ==
    Parsed1 =>
        LET text == Join(rangePieces)
        IN  \A c \in Cores : \A l \in 0..(Len(text) - Len(c.text)) :
                LET r == Len(text) - Len(c.text) - l
                IN  text = Spaces(l) \o c.text \o Spaces(r) =>
                        parseResult = c.result

\* " 01.06.2024 - 5.7.2024 " parsed
C12_Witness ==
    /\ Join(rangePieces) = <<" ">> \o DateA \o <<" ", "-", " ">> \o DateB \o <<" ">>
    /\ parseResult = RangeOk(IsoA, IsoB)

----------------------------------------------------------------------------

DateTokens == {DateA, DateB, DateBad, DateNoDay}

Malformed == {DateBad, DateNoDay}

HasMarker(s) == \E i \in 1..(Len(s) - 2) : SubSeq(s, i, i + 2) = <<"v", "o", "n">>

\* two valid dates with " - " between them stand in the text
HasDatePair(s) ==
    \E d1 \in ValidDates, d2 \in ValidDates :
        LET pair == d1 \o <<" ", "-", " ">> \o d2
        IN  \E i \in 1..(Len(s) - Len(pair) + 1) : SubSeq(s, i, i + Len(pair) - 1) = pair

\* the texts of the two forms with a malformed date token
MalformedTexts ==
    {t1 \o <<" ", "-", " ">> \o t2 : t1 \in Malformed, t2 \in DateTokens}
        \cup {t1 \o <<" ", "-", " ">> \o t2 : t1 \in DateTokens, t2 \in Malformed}
        \cup {Von \o <<" ">> \o Word \o <<" ">> \o t : t \in Malformed}
        \cup {Von \o <<" ">> \o t : t \in Malformed}

ParseFailed == ~parseResult.ok /\ Len(built) = 1 /\ ~built[1].ok

----------------------------------------------------------------------------
(* The records of the collection. *)

\* t is a calendar date written YYYY-MM-DD
IsIsoDate(t) ==
    /\ Len(t) = 10
    /\ t[5] = "-" /\ t[8] = "-"
    /\ \A i \in {1, 2, 3, 4, 6, 7, 9, 10} : t[i] \in Digits
    /\ LET y == NumVal[SubSeq(t, 1, 4)]
           m == NumVal[SubSeq(t, 6, 7)]
           d == NumVal[SubSeq(t, 9, 10)]
       IN  /\ y >= 1
           /\ m \in 1..12
           /\ d \in 1..DaysInMonth(y, m)

\* C14: every record of the collection has a valid_from that is a calendar
\* date in YYYY-MM-DD form and a valid_to that is empty or such a date.
C14_RecordDatesAreIso ==
    \A i \in 1..Len(parsed_flyers) :
        /\ IsIsoDate(parsed_flyers[i].valid_from)
        /\ parsed_flyers[i].valid_to = <<>> \/ IsIsoDate(parsed_flyers[i].valid_to)

\* a collection with a single-bound record and a double-bound record
C14_Witness ==
    /\ pc = "parsed"
    /\ \E i \in 1..Len(parsed_flyers) : parsed_flyers[i].valid_to = <<>>
    /\ \E i \in 1..Len(parsed_flyers) : parsed_flyers[i].valid_to = IsoB

\* the text of the anchor of shop i, trimmed
TrimmedName(i) == <<"S", DigitChars[i + 1]>>

\* C15: the shop_name of every record has no whitespace at its ends and is
\* the trimmed link text of the shop whose page gave the record.
C15_ShopNameIsTrimmedLinkText ==
    \A i \in 1..Len(parsed_flyers) :
        LET name == parsed_flyers[i].shop_name
        IN  /\ name # <<>>
            /\ name[1] \notin Whitespace
            /\ name[Len(name)] \notin Whitespace
            /\ \E k \in 1..Len(visited) :
                  /\ visited[k].outcome = "found"
                  /\ name = TrimmedName(visited[k].link.href)

----------------------------------------------------------------------------
(* parse_flyer on one element. *)

\* the records the calls so far gave
BuiltRecordsOfCalls == SelectSeq(built, LAMBDA r : r.ok)

\* C16: the thumbnail of a record is the src attribute of the image when
\* that is there and not empty, and the data-src attribute otherwise.
C16_ThumbnailPrefersSrc ==
    \A i \in 1..Len(built) :
        built[i].ok =>
            LET img == flyerInput.img[1]
            IN  IF img.src = Some("s.jpg")
                THEN built[i].record.thumbnail = Some("s.jpg")
                ELSE built[i].record.thumbnail = img.data_src

\* an image with an empty src and a data-src: the record has the data-src
C16_Witness ==
    /\ built # <<>>
    /\ built[1].ok
    /\ flyerInput.img = Img(Some(""), Some("d.jpg"))
    /\ built[1].record.thumbnail = Some("d.jpg")

\* C17: the calls of parse_flyer on one element with one shop name all
\* build a record or all fail, and the records are the same in title,
\* thumbnail, shop_name, valid_from and valid_to.
C17_BuildIsIdempotent ==
    \A i \in 1..Len(built), j \in 1..Len(built) :
        /\ built[i].ok = built[j].ok
        /\ built[i].ok =>
              /\ built[i].record.title = built[j].record.title
              /\ built[i].record.thumbnail = built[j].record.thumbnail
              /\ built[i].record.shop_name = built[j].record.shop_name
              /\ built[i].record.valid_from = built[j].record.valid_from
              /\ built[i].record.valid_to = built[j].record.valid_to

\* two calls at different times on a single-bound element
C17_Witness ==
    /\ Len(built) = 2
    /\ built[1].ok
    /\ built[2].ok
    /\ built[1].record.valid_to = <<>>
    /\ built[1].record.parsed_time # built[2].record.parsed_time

----------------------------------------------------------------------------
(* The driver and the collection over the runs. *)

\* C18: no driver.get and no wait is made on the driver after driver.quit.
C18_NoUseAfterRelease == usedAfterQuit = 0

AppendsOne(old, new) ==
    /\ Len(new) = Len(old) + 1
    /\ SubSeq(new, 1, Len(old)) = old

\* C19: from the reset of a run to its end every step leaves the
\* collection as it is or appends one record at its end, also the step in
\* which an error in a later shop ends the run.
C19_AppendOnlyWithinRun ==
    [][Running \/ pc = "parsed" =>
          (parsed_flyers' = parsed_flyers \/ AppendsOne(parsed_flyers, parsed_flyers'))]_vars

\* a run ended by an error in its second shop, the records of the first
\* shop in the collection
C19_Witness ==
    /\ pc = "parsed"
    /\ Len(visited) = 2
    /\ visited[1].outcome = "found"
    /\ visited[2].outcome = "error"
    /\ Len(parsed_flyers) = 2

\* C20: the thumbnail of every record of the collection is a string that
\* is not empty.
C20_ThumbnailNotEmpty ==
    \A i \in 1..Len(parsed_flyers) :
        /\ parsed_flyers[i].thumbnail # None
        /\ parsed_flyers[i].thumbnail[1] # ""

====
